---- MODULE Spec2Model ----
(***************************************************************************)
(* Model of fogfish/cloudmcp: the serverless JSON-RPC gateway              *)
(* (internal/gateway) and the authenticated client transports (pkg/auth).  *)
(* Strings and byte slices are sequences of byte values (ASCII codes).     *)
(***************************************************************************)
EXTENDS Integers, Sequences, FiniteSets, TLC

Nil == "nil"

\* an optional value: None (a nil pointer) or Some(x)
None == << >>
Some(x) == << x >>
\* a nil reference to a writer or to a header map
NoRef == 0

(***************************************************************************)
(* Byte strings used by the code and by the inputs of the model.           *)
(***************************************************************************)
S_GET == <<71,69,84>>                                  \* "GET"
S_POST == <<80,79,83,84>>                              \* "POST"
S_get == <<103,101,116>>                               \* "get"
S_BadMethod == <<66,32,68>>                            \* "B D"
S_PathMcp == <<47,109,99,112>>                         \* "/mcp"
S_PathBadEscape == <<47,37,122,122>>                   \* "/%zz"
S_Hello == <<72,101,108,108,111>>                      \* "Hello"
S_HelloB64 == <<83,71,86,115,98,71,56,61>>             \* "SGVsbG8="
S_Brace == <<123>>                                     \* "{"
S_Colon == <<58>>                                      \* ":"
S_Basic == <<66,97,115,105,99,32>>                     \* "Basic "
S_Authorization == <<65,117,116,104,111,114,105,122,97,116,105,111,110>>
S_access == <<97,99,99,101,115,115>>                   \* "access"
S_secret == <<115,101,99,114,101,116>>                 \* "secret"
\* "YWNjZXNzOnNlY3JldA"
S_abDigest == <<89,84,112,105>>                         \* "YTpi"
S_accessSecretDigest == <<89,87,78,106,90,88,78,122,79,110,78,108,89,51,74,108,100,65>>
S_contentType == <<99,111,110,116,101,110,116,45,116,121,112,101>>   \* "content-type"
S_ContentType == <<67,111,110,116,101,110,116,45,84,121,112,101>>    \* "Content-Type"
S_json == <<106,115,111,110>>                          \* "json"
S_text == <<116,101,120,116>>                          \* "text"
S_xa == <<120,45,97>>                                  \* "x-a"
S_XA == <<88,45,65>>                                   \* "X-A"
S_1 == <<49>>                                          \* "1"
S_2 == <<50>>                                          \* "2"
S_q == <<113>>                                         \* "q"
S_aSpaceB == <<97,32,98>>                              \* "a b"
S_Hi == <<72,105>>                                     \* "Hi"
S_Bang == <<33>>                                       \* "!"
S_BearerX == <<66,101,97,114,101,114,32,120>>         \* "Bearer x"
S_a == <<97>>                                          \* "a"
S_b == <<98>>                                          \* "b"
S_Slash == <<47>>                                      \* "/"
S_Space == <<32>>                                      \* " "
S_Url == <<104,116,116,112,115,58,47,47,104,47,109,99,112>>          \* "https://h/mcp"
S_Role == <<97,114,110,58,114,111,108,101,47,82>>      \* "arn:role/R"
S_ext == <<101,120,116>>                               \* "ext"
S_euWest1 == <<101,117,45,119,101,115,116,45,49>>      \* "eu-west-1"
S_usEast1 == <<117,115,45,101,97,115,116,45,49>>       \* "us-east-1"
S_executeApi == <<101,120,101,99,117,116,101,45,97,112,105>>         \* "execute-api"
S_AkidAmbient == <<65,75,73,68,65,77,66,73,69,78,84>>  \* "AKIDAMBIENT"
S_AkidSupplied == <<65,75,73,68,83,85,80>>             \* "AKIDSUP"
S_AkidRole == <<65,83,73,65,82,79,76,69>>              \* "ASIAROLE"
S_token == <<116,111,107,101,110>>                     \* "token"
S_v1 == <<118,49>>                                     \* "v1"
S_v2 == <<118,50>>                                     \* "v2"
S_XAmzDate == <<88,45,65,109,122,45,68,97,116,101>>    \* "X-Amz-Date"
\* "X-Amz-Security-Token"
S_XAmzSecurityToken == <<88,45,65,109,122,45,83,101,99,117,114,105,116,121,45,84,111,107,101,110>>
S_Time0 == <<50,48,50,54,49,49,48,53,84,48,48,48,48,48,48,90>>       \* "20261105T000000Z"
S_Time1 == <<50,48,50,54,49,49,48,53,84,48,48,48,48,48,49,90>>       \* "20261105T000001Z"
S_Aws4 == <<65,87,83,52,45,72,77,65,67,45,83,72,65,50,53,54,32>>     \* "AWS4-HMAC-SHA256 "
\* e3b0c44298fc1c149afbf4c8996fb92427ae41e4649b934ca495991b7852b855
S_EmptyHash == <<101,51,98,48,99,52,52,50,57,56,102,99,49,99,49,52,57,97,102,98,102,52,
                 99,56,57,57,54,102,98,57,50,52,50,55,97,101,52,49,101,52,54,52,57,98,
                 57,51,52,99,97,52,57,53,57,57,49,98,55,56,53,50,98,56,53,53>>
\* 3639efcd08abb273b1619e82e78c29a7df02c1051b1820e99fc395dcaa3326b8
S_HashHi == <<51,54,51,57,101,102,99,100,48,56,97,98,98,50,55,51,98,49,54,49,57,101,56,
              50,101,55,56,99,50,57,97,55,100,102,48,50,99,49,48,53,49,98,49,56,50,48,
              101,57,57,102,99,51,57,53,100,99,97,97,51,51,50,54,98,56>>
\* 104068f142aa39f5e5c465ea5edcf2e819e29258a2b8e84d9b667c46ed3bff7a
S_HashPing == <<49,48,52,48,54,56,102,49,52,50,97,97,51,57,102,53,101,53,99,52,54,53,101,
                97,53,101,100,99,102,50,101,56,49,57,101,50,57,50,53,56,97,50,98,56,101,
                56,52,100,57,98,54,54,55,99,52,54,101,100,51,98,102,102,55,97>>
\* "jsonrpc":"2.0"
S_VersionTag == <<34,106,115,111,110,114,112,99,34,58,34,50,46,48,34>>
\* "method":"
S_MethodTag == <<34,109,101,116,104,111,100,34,58,34>>
\* "id":
S_IdTag == <<34,105,100,34,58>>
\* {"jsonrpc":"2.0","method":"ping","id":1}
S_Ping == <<123,34,106,115,111,110,114,112,99,34,58,34,50,46,48,34,44,34,109,101,
            116,104,111,100,34,58,34,112,105,110,103,34,44,34,105,100,34,58,49,125>>
\* {"jsonrpc":"1.0","method":"ping","id":1}
S_PingV1 == <<123,34,106,115,111,110,114,112,99,34,58,34,49,46,48,34,44,34,109,101,
              116,104,111,100,34,58,34,112,105,110,103,34,44,34,105,100,34,58,49,125>>
\* base64 (standard, padded) of S_Ping
S_PingB64 == <<101,121,74,113,99,50,57,117,99,110,66,106,73,106,111,105,77,105,52,
               119,73,105,119,105,98,87,86,48,97,71,57,107,73,106,111,105,99,71,108,
               117,90,121,73,115,73,109,108,107,73,106,111,120,102,81,61,61>>

(***************************************************************************)
(* Byte-level helpers.                                                     *)
(***************************************************************************)
IsUpper(c) == c \in 65..90
IsLower(c) == c \in 97..122
IsDigit(c) == c \in 48..57
IsAlnum(c) == IsUpper(c) \/ IsLower(c) \/ IsDigit(c)

\* RFC 7230 token characters (net/http validMethod, textproto validHeaderFieldByte)
IsTokenByte(c) == IsAlnum(c) \/ c \in {33,35,36,37,38,39,42,43,45,46,94,95,96,124,126}

Drop(s, n) == SubSeq(s, n + 1, Len(s))
Take(s, n) == SubSeq(s, 1, n)

HasPrefix(s, p) == Len(s) >= Len(p) /\ Take(s, Len(p)) = p

Contains(s, sub) ==
    \E k \in 0..(Len(s) - Len(sub)) : SubSeq(s, k + 1, k + Len(sub)) = sub

RECURSIVE Concat(_)
Concat(ss) == IF ss = <<>> THEN <<>> ELSE Head(ss) \o Concat(Tail(ss))

(***************************************************************************)
(* encoding/base64                                                         *)
(***************************************************************************)
\* value of a character of the standard alphabet, -1 if it is not in it
B64Value(c) ==
    IF IsUpper(c) THEN c - 65
    ELSE IF IsLower(c) THEN c - 71
    ELSE IF IsDigit(c) THEN c + 4
    ELSE IF c = 43 THEN 62
    ELSE IF c = 47 THEN 63
    ELSE -1

B64Char(v) ==
    IF v < 26 THEN v + 65
    ELSE IF v < 52 THEN v + 71
    ELSE IF v < 62 THEN v - 4
    ELSE IF v = 62 THEN 43
    ELSE 47

\* base64.RawStdEncoding.EncodeToString: 3 bytes -> 4 characters, no padding
RECURSIVE RawStdEncode(_)
RawStdEncode(b) ==
    IF Len(b) = 0 THEN <<>>
    ELSE IF Len(b) = 1 THEN
        << B64Char(b[1] \div 4), B64Char((b[1] % 4) * 16) >>
    ELSE IF Len(b) = 2 THEN
        << B64Char(b[1] \div 4),
           B64Char((b[1] % 4) * 16 + b[2] \div 16),
           B64Char((b[2] % 16) * 4) >>
    ELSE
        << B64Char(b[1] \div 4),
           B64Char((b[1] % 4) * 16 + b[2] \div 16),
           B64Char((b[2] % 16) * 4 + b[3] \div 64),
           B64Char(b[3] % 64) >> \o RawStdEncode(Drop(b, 3))

\* the newline filter base64.NewDecoder puts in front of its reader
StripNewlines(s) == SelectSeq(s, LAMBDA c : c # 10 /\ c # 13)

\* Decoding of the 4-character quanta of s by a StdEncoding stream decoder.
\* The result is what reading the stream to its end yields: the bytes
\* delivered, and whether the read ended with an error instead of a clean EOF.
RECURSIVE DecodeQuanta(_)
DecodeQuanta(s) ==
    IF Len(s) = 0 THEN [data |-> <<>>, err |-> FALSE]
    ELSE IF Len(s) < 4 THEN [data |-> <<>>, err |-> TRUE]     \* io.ErrUnexpectedEOF
    ELSE
        LET v1 == B64Value(s[1])
            v2 == B64Value(s[2])
            v3 == B64Value(s[3])
            v4 == B64Value(s[4])
            rest == Drop(s, 4)
        IN  IF v1 = -1 \/ v2 = -1 THEN [data |-> <<>>, err |-> TRUE]
            ELSE IF v3 = -1 THEN
                \* "xx==" ends the input with one byte
                IF s[3] = 61 /\ s[4] = 61
                THEN [data |-> << v1 * 4 + v2 \div 16 >>, err |-> Len(rest) > 0]
                ELSE [data |-> <<>>, err |-> TRUE]
            ELSE IF v4 = -1 THEN
                \* "xxx=" ends the input with two bytes
                IF s[4] = 61
                THEN [data |-> << v1 * 4 + v2 \div 16,
                                  (v2 % 16) * 16 + v3 \div 4 >>,
                      err |-> Len(rest) > 0]
                ELSE [data |-> <<>>, err |-> TRUE]
            ELSE
                LET more == DecodeQuanta(rest)
                IN  [data |-> << v1 * 4 + v2 \div 16,
                                 (v2 % 16) * 16 + v3 \div 4,
                                 (v3 % 4) * 64 + v4 >> \o more.data,
                     err |-> more.err]

\* io.ReadAll(base64.NewDecoder(base64.StdEncoding, strings.NewReader(s)))
StdDecodeStream(s) == DecodeQuanta(StripNewlines(s))

(***************************************************************************)
(* net/http, net/url and net/textproto, as far as the gateway uses them.   *)
(***************************************************************************)
ToUpper(c) == IF IsLower(c) THEN c - 32 ELSE c
ToLower(c) == IF IsUpper(c) THEN c + 32 ELSE c

\* textproto.CanonicalMIMEHeaderKey: a key with a byte that is no token byte
\* is left alone; otherwise the first letter and every letter after a hyphen
\* are upper-cased and the others lower-cased.
CanonicalMIMEHeaderKey(k) ==
    IF \E n \in 1..Len(k) : ~IsTokenByte(k[n]) THEN k
    ELSE [n \in 1..Len(k) |->
            IF n = 1 \/ k[n - 1] = 45 THEN ToUpper(k[n]) ELSE ToLower(k[n])]

\* http.Header is map[string][]string: a function from keys to value lists
NoHeader == << >>

HeaderSet(h, k, v) ==
    LET ck == CanonicalMIMEHeaderKey(k)
    IN  [x \in DOMAIN h \cup {ck} |-> IF x = ck THEN <<v>> ELSE h[x]]

HeaderAdd(h, k, v) ==
    LET ck == CanonicalMIMEHeaderKey(k)
    IN  [x \in DOMAIN h \cup {ck} |->
            IF x = ck THEN (IF ck \in DOMAIN h THEN Append(h[ck], v) ELSE <<v>>)
            ELSE h[x]]

HeaderValues(h, k) ==
    LET ck == CanonicalMIMEHeaderKey(k)
    IN  IF ck \in DOMAIN h THEN h[ck] ELSE <<>>

\* net/http validMethod
validMethod(m) == Len(m) > 0 /\ \A n \in 1..Len(m) : IsTokenByte(m[n])

IsHex(c) == IsDigit(c) \/ c \in 65..70 \/ c \in 97..102

\* url.Parse of a request path fails on a control byte, a leading colon and a
\* percent sign that is not followed by two hex digits
urlParseOk(p) ==
    /\ \A n \in 1..Len(p) : p[n] >= 32 /\ p[n] # 127
    /\ ~(Len(p) > 0 /\ p[1] = 58)
    /\ \A n \in 1..Len(p) :
          p[n] = 37 => (n + 2 <= Len(p) /\ IsHex(p[n + 1]) /\ IsHex(p[n + 2]))

HexDigit(v) == IF v < 10 THEN v + 48 ELSE v + 55

\* url.QueryEscape
RECURSIVE QueryEscape(_)
QueryEscape(s) ==
    IF s = <<>> THEN <<>>
    ELSE LET c == Head(s)
             e == IF IsAlnum(c) \/ c \in {45, 95, 46, 126} THEN <<c>>
                  ELSE IF c = 32 THEN <<43>>
                  ELSE <<37, HexDigit(c \div 16), HexDigit(c % 16)>>
         IN  e \o QueryEscape(Tail(s))

RECURSIVE LexLess(_, _)
LexLess(a, b) ==
    IF a = <<>> THEN b # <<>>
    ELSE IF b = <<>> THEN FALSE
    ELSE IF Head(a) # Head(b) THEN Head(a) < Head(b)
    ELSE LexLess(Tail(a), Tail(b))

\* url.Values.Encode: "key=value" pairs in the order of the sorted keys.
\* Each key of the event's mapping carries one value.
RECURSIVE ValuesEncode(_)
ValuesEncode(q) ==
    IF DOMAIN q = {} THEN <<>>
    ELSE LET k == CHOOSE x \in DOMAIN q : \A y \in DOMAIN q \ {x} : LexLess(x, y)
             rest == [y \in DOMAIN q \ {k} |-> q[y]]
             pair == QueryEscape(k) \o <<61>> \o QueryEscape(q[k])
         IN  IF DOMAIN rest = {} THEN pair
             ELSE pair \o <<38>> \o ValuesEncode(rest)

(***************************************************************************)
(* jsonrpc.DecodeMessage (github.com/modelcontextprotocol/go-sdk): the     *)
(* envelope decoder the gateway calls. It accepts a JSON object that       *)
(* carries the version tag "2.0" and either a method (a request) or an id  *)
(* (a response).                                                           *)
(***************************************************************************)
DecodeMessage(data) ==
    IF /\ Len(data) >= 2
       /\ data[1] = 123
       /\ data[Len(data)] = 125
       /\ Contains(data, S_VersionTag)
       /\ (Contains(data, S_MethodTag) \/ Contains(data, S_IdTag))
    THEN [err |-> Nil,
          msg |-> Some([kind |-> IF Contains(data, S_MethodTag) THEN "request" ELSE "response",
                   wire |-> data])]
    ELSE [err |-> "bad json-rpc message", msg |-> None]

(***************************************************************************)
(* internal/gateway/apigw.go                                               *)
(***************************************************************************)
\* variant: the body is handed over as it is, whatever IsBase64Encoded says
requestBodyRaw(r) == [raw |-> r.Body, base64 |-> FALSE]

\* requestBody: the reader handed to the request. Reading is lazy, so the
\* body is kept as the event's string and the decoder that wraps it.
requestBody(r) == [raw |-> r.Body, base64 |-> r.IsBase64Encoded]

\* io.ReadAll of a body built by requestBody
ReadAll(body) ==
    IF body.base64 THEN StdDecodeStream(body.raw)
    ELSE [data |-> body.raw, err |-> FALSE]

\* the orders in which a range loop may visit the keys of a Go map
KeyOrders(m) ==
    {o \in [1..Cardinality(DOMAIN m) -> DOMAIN m] :
        \A a, b \in DOMAIN o : a # b => o[a] # o[b]}

RECURSIVE SetHeaders(_, _, _)
SetHeaders(h, m, order) ==
    IF order = <<>> THEN h
    ELSE SetHeaders(HeaderSet(h, Head(order), m[Head(order)]), m, Tail(order))

\* NewHttpRequest; order is the order in which the range loop over r.Headers
\* visits the keys
NewHttpRequest(r, order) ==
    IF ~validMethod(IF r.HTTPMethod = <<>> THEN S_GET ELSE r.HTTPMethod)
    THEN [err |-> "invalid method", req |-> None]
    ELSE IF ~urlParseOk(r.Path)
    THEN [err |-> "invalid url", req |-> None]
    ELSE [err |-> Nil,
          req |-> Some([Method   |-> IF r.HTTPMethod = <<>> THEN S_GET ELSE r.HTTPMethod,
                        Path     |-> r.Path,
                        RawQuery |-> ValuesEncode(r.QueryStringParameters),
                        Header   |-> SetHeaders(NoHeader, r.Headers, order),
                        Body     |-> requestBody(r)])]

\* variant: every writer refers to one package-level header map
NewHttpResponseSharedHead(ref) == [code |-> 0, head |-> 1, wbuf |-> <<>>]

\* NewHttpResponse: a writer with no status, an empty header map and an
\* empty buffer. head is a reference to the header map (maps are shared,
\* not copied, when the writer hands them out).
NewHttpResponse(ref) == [code |-> 0, head |-> ref, wbuf |-> <<>>]

\* variant: the first status sticks (as net/http's own response does)
WriteHeaderOnce(w, statusCode) ==
    IF w.code = 0 THEN [w EXCEPT !.code = statusCode] ELSE w

WriteHeader(w, statusCode) == [w EXCEPT !.code = statusCode]

Write(w, b) == [w EXCEPT !.wbuf = @ \o b]

Header(w) == w.head

StatusOK == 200

Value(w) ==
    [StatusCode        |-> IF w.code # 0 THEN w.code ELSE StatusOK,
     Headers           |-> Nil,
     MultiValueHeaders |-> w.head,
     Body              |-> w.wbuf]

(***************************************************************************)
(* State.                                                                  *)
(*   inv     : the invocations of Gateway.Serve, one per slot              *)
(*   writers : the Response Recorder (writer) of each invocation           *)
(*   heads   : the header maps the writers refer to                        *)
(*   transports : the authenticated transports NewTransport* has built     *)
(*   clients  : the http.Client objects, the caller's and the built ones   *)
(*   ctor     : what the NewTransport* call just made returned             *)
(*   requests : the *http.Request object of each outbound call             *)
(*   rt       : the outbound calls, one per slot                           *)
(*   sts      : the credentials cache over the AssumeRole provider of each *)
(*              transport                                                  *)
(***************************************************************************)
VARIABLES inv, writers, heads, transports, clients, ctor, requests, rt, sts

gwvars == <<inv, writers, heads>>
authvars == <<transports, clients, ctor, requests, rt, sts>>
vars == <<inv, writers, heads, transports, clients, ctor, requests, rt, sts>>

\* Bounds of the model
NumInv == 2          \* invocations of Serve that may be in flight together
MaxOps == 3          \* writes of the handler to the recorder, per invocation
MaxConcOps == 1      \* the same, for the interleaved invocations

Slots == 1..NumInv

(***************************************************************************)
(* The inbound events (events.APIGatewayProxyRequest).                     *)
(***************************************************************************)
Methods == {S_GET, S_POST, S_get, <<>>, S_BadMethod}
Paths == {S_PathMcp, S_PathBadEscape}
HeaderMaps == {NoHeader, (S_contentType :> S_json), (S_xa :> S_1 @@ S_XA :> S_2)}
QueryMaps == {<< >>, (S_q :> S_aSpaceB)}
Bodies == {<<>>, S_Ping, S_PingV1, S_Brace, S_HelloB64, S_PingB64}

Events ==
    [HTTPMethod : Methods, Path : Paths, Headers : HeaderMaps,
     QueryStringParameters : QueryMaps, Body : Bodies, IsBase64Encoded : BOOLEAN]

\* the events of the interleaved invocations
ConcEvents ==
    [HTTPMethod : {S_GET, S_POST}, Path : {S_PathMcp}, Headers : {NoHeader},
     QueryStringParameters : {<< >>}, Body : {<<>>, S_Ping, S_Brace},
     IsBase64Encoded : {FALSE}]

\* the events given to the adapter on its own
AdaptEvents ==
    [HTTPMethod : {S_POST, S_BadMethod}, Path : {S_PathMcp}, Headers : HeaderMaps,
     QueryStringParameters : {(S_q :> S_aSpaceB)}, Body : {<<>>, S_HelloB64, S_Ping},
     IsBase64Encoded : BOOLEAN]

\* what the protocol handler may pass to the recorder
StatusCodes == {201, 404}
Chunks == {S_Hi, S_Bang}
ReplyHeaders == {<<S_contentType, S_json>>, <<S_ContentType, S_text>>}

\* the same, for the interleaved invocations
ConcStatusCodes == {404}
ConcChunks == {S_Hi}
ConcReplyHeaders == {<<S_contentType, S_json>>}

(***************************************************************************)
(* internal/gateway/gateway.go                                             *)
(***************************************************************************)
StatusMethodNotAllowed == 405

\* an invocation that has not started
IdleInv ==
    [pc      |-> "idle",    \* idle, ServeHTTP (inside the handler), done
     req     |-> None,      \* the event
     decoded |-> 0,         \* calls of jsonrpc.DecodeMessage
     msg     |-> None,      \* the decoded envelope
     input   |-> None,      \* the *http.Request built by NewHttpRequest
     reply   |-> NoRef,     \* the writer built by NewHttpResponse
     served  |-> 0,         \* calls of gw.ctrl.ServeHTTP
     log     |-> <<>>,      \* what the handler passed to the recorder
     read    |-> None,      \* what the handler read from input.Body
     resp    |-> None,      \* the returned *APIGatewayProxyResponse
     err     |-> Nil,       \* the returned error
     taken   |-> None,      \* the length of log when Value was first called
     again   |-> None]      \* what a second call of Value returned

\* variant: a request that cannot be built is answered with a status
serveCtrlErrorAsStatus(i, call, req, order) ==
    LET built == NewHttpRequest(req, order)
    IN  IF built.err # Nil
        THEN [call EXCEPT !.pc = "done",
                          !.resp = Some([StatusCode        |-> 400,
                                         Headers           |-> Nil,
                                         MultiValueHeaders |-> NoRef,
                                         Body              |-> <<>>])]
        ELSE [call EXCEPT !.pc = "ServeHTTP", !.input = built.req,
                          !.reply = i, !.served = @ + 1]

\* serveCtrl up to the call of gw.ctrl.ServeHTTP; req is the event it is
\* passed and i the invocation, whose writer NewHttpResponse allocates
serveCtrl(i, call, req, order) ==
    LET built == NewHttpRequest(req, order)
    IN  IF built.err # Nil
        THEN [call EXCEPT !.pc = "done", !.err = built.err]
        ELSE [call EXCEPT !.pc = "ServeHTTP", !.input = built.req,
                          !.reply = i, !.served = @ + 1]

\* variant: the envelope is decoded before the method is looked at
ServeDecodeBeforeMethod(i, r, order) ==
    LET call == [IdleInv EXCEPT !.req = Some(r)]
        d == DecodeMessage(r.Body)
    IN  IF Len(r.Body) # 0 /\ d.err # Nil
        THEN [call EXCEPT !.pc = "done", !.decoded = @ + 1, !.err = d.err]
        ELSE IF r.HTTPMethod = S_GET
        THEN [call EXCEPT !.pc = "done",
                          !.decoded = IF Len(r.Body) # 0 THEN 1 ELSE 0,
                          !.resp = Some([StatusCode        |-> StatusMethodNotAllowed,
                                         Headers           |-> Nil,
                                         MultiValueHeaders |-> NoRef,
                                         Body              |-> <<>>])]
        ELSE serveCtrl(i, [call EXCEPT !.decoded = IF Len(r.Body) # 0 THEN 1 ELSE 0,
                                       !.msg = IF Len(r.Body) # 0 THEN d.msg ELSE None],
                       r, order)

\* variant: a decode error is logged and the call is delegated all the same
ServeIgnoreDecodeError(i, r, order) ==
    LET call == [IdleInv EXCEPT !.req = Some(r)]
    IN  IF r.HTTPMethod = S_GET
        THEN [call EXCEPT !.pc = "done",
                          !.resp = Some([StatusCode        |-> StatusMethodNotAllowed,
                                         Headers           |-> Nil,
                                         MultiValueHeaders |-> NoRef,
                                         Body              |-> <<>>])]
        ELSE IF Len(r.Body) = 0
        THEN serveCtrl(i, call, r, order)
        ELSE serveCtrl(i, [call EXCEPT !.decoded = @ + 1,
                                       !.msg = DecodeMessage(r.Body).msg], r, order)

\* variant: the request is built from what the decoder left of the body
ServeDecodeConsumesBody(i, r, order) ==
    LET call == [IdleInv EXCEPT !.req = Some(r)]
    IN  IF r.HTTPMethod = S_GET
        THEN [call EXCEPT !.pc = "done",
                          !.resp = Some([StatusCode        |-> StatusMethodNotAllowed,
                                         Headers           |-> Nil,
                                         MultiValueHeaders |-> NoRef,
                                         Body              |-> <<>>])]
        ELSE IF Len(r.Body) = 0
        THEN serveCtrl(i, call, r, order)
        ELSE LET d == DecodeMessage(r.Body)
             IN  IF d.err # Nil
                 THEN [call EXCEPT !.pc = "done", !.decoded = @ + 1, !.err = d.err]
                 ELSE serveCtrl(i, [call EXCEPT !.decoded = @ + 1, !.msg = d.msg],
                                [r EXCEPT !.Body = <<>>], order)

\* variant: an empty body is handed to the decoder like any other
ServeDecodeEmptyBody(i, r, order) ==
    LET call == [IdleInv EXCEPT !.req = Some(r)]
    IN  IF r.HTTPMethod = S_GET
        THEN [call EXCEPT !.pc = "done",
                          !.resp = Some([StatusCode        |-> StatusMethodNotAllowed,
                                         Headers           |-> Nil,
                                         MultiValueHeaders |-> NoRef,
                                         Body              |-> <<>>])]
        ELSE LET d == DecodeMessage(r.Body)
             IN  IF d.err # Nil
                 THEN [call EXCEPT !.pc = "done", !.decoded = @ + 1, !.err = d.err]
                 ELSE serveCtrl(i, [call EXCEPT !.decoded = @ + 1, !.msg = d.msg], r, order)

\* Serve up to its return or to the call of gw.ctrl.ServeHTTP
Serve(i, r, order) ==
    LET call == [IdleInv EXCEPT !.req = Some(r)]
    IN  IF r.HTTPMethod = S_GET
        THEN [call EXCEPT !.pc = "done",
                          !.resp = Some([StatusCode        |-> StatusMethodNotAllowed,
                                         Headers           |-> Nil,
                                         MultiValueHeaders |-> NoRef,
                                         Body              |-> <<>>])]
        ELSE IF Len(r.Body) = 0
        THEN serveCtrl(i, call, r, order)
        ELSE LET d == DecodeMessage(r.Body)
             IN  IF d.err # Nil
                 THEN [call EXCEPT !.pc = "done", !.decoded = @ + 1, !.err = d.err]
                 ELSE serveCtrl(i, [call EXCEPT !.decoded = @ + 1, !.msg = d.msg], r, order)

\* An event arrives: Serve runs until it returns or enters the handler.
Invoke(i, r) ==
    /\ inv[i].pc = "idle"
    /\ \E order \in KeyOrders(r.Headers) :
          LET call == Serve(i, r, order)
          IN  /\ inv' = [inv EXCEPT ![i] = call]
              /\ IF call.reply # NoRef
                 THEN /\ writers' = [writers EXCEPT ![i] = Some(NewHttpResponse(i))]
                      /\ heads' = [heads EXCEPT ![i] = NoHeader]
                 ELSE UNCHANGED <<writers, heads>>
    /\ UNCHANGED authvars

\* The protocol handler (Controller.ServeHTTP) sets the status.
CtrlWriteHeader(i, code, max) ==
    /\ inv[i].pc = "ServeHTTP"
    /\ Len(inv[i].log) < max
    /\ writers' = [writers EXCEPT ![inv[i].reply] = Some(WriteHeader(@[1], code))]
    /\ inv' = [inv EXCEPT ![i].log = Append(@, <<"WriteHeader", code>>)]
    /\ UNCHANGED <<heads, authvars>>

\* The protocol handler appends to the body.
CtrlWrite(i, b, max) ==
    /\ inv[i].pc = "ServeHTTP"
    /\ Len(inv[i].log) < max
    /\ writers' = [writers EXCEPT ![inv[i].reply] = Some(Write(@[1], b))]
    /\ inv' = [inv EXCEPT ![i].log = Append(@, <<"Write", b>>)]
    /\ UNCHANGED <<heads, authvars>>

\* The protocol handler adds a header value: w.Header().Add(k, v).
CtrlHeaderAdd(i, kv, max) ==
    /\ inv[i].pc = "ServeHTTP"
    /\ Len(inv[i].log) < max
    /\ heads' = [heads EXCEPT ![Header(writers[inv[i].reply][1])] = HeaderAdd(@, kv[1], kv[2])]
    /\ inv' = [inv EXCEPT ![i].log = Append(@, <<"Header", kv>>)]
    /\ UNCHANGED <<writers, authvars>>

\* The protocol handler reads the request body to its end.
CtrlReadBody(i) ==
    /\ inv[i].pc = "ServeHTTP"
    /\ inv[i].read = None
    /\ inv' = [inv EXCEPT ![i].read = Some(ReadAll(inv[i].input[1].Body))]
    /\ UNCHANGED <<writers, heads, authvars>>

\* The handler returns; serveCtrl returns reply.Value().
CtrlReturn(i) ==
    /\ inv[i].pc = "ServeHTTP"
    /\ inv' = [inv EXCEPT ![i].pc = "done", ![i].resp = Some(Value(writers[inv[i].reply][1]))]
    /\ UNCHANGED <<writers, heads, authvars>>

\* The caller has taken the outcome; the slot serves the next event.
Complete(i) ==
    /\ inv[i].pc = "done"
    /\ inv' = [inv EXCEPT ![i] = IdleInv]
    /\ writers' = [writers EXCEPT ![i] = None]
    /\ heads' = [heads EXCEPT ![i] = NoHeader]
    /\ UNCHANGED authvars

\* NewHttpRequest on its own, as a caller of the adapter uses it: the request
\* is built from the event and its body is read to the end.
AdaptRequest(i, r) ==
    /\ inv[i].pc = "idle"
    /\ \E order \in KeyOrders(r.Headers) :
          LET built == NewHttpRequest(r, order)
          IN  inv' = [inv EXCEPT ![i] =
                        [IdleInv EXCEPT !.pc = "done", !.req = Some(r),
                                        !.input = built.req, !.err = built.err,
                                        !.read = IF built.err = Nil
                                                 THEN Some(ReadAll(built.req[1].Body))
                                                 ELSE None]]
    /\ UNCHANGED <<writers, heads, authvars>>

\* A recorder on its own: NewHttpResponse.
RecNew(i) ==
    /\ inv[i].pc = "idle"
    /\ inv' = [inv EXCEPT ![i] = [IdleInv EXCEPT !.pc = "ServeHTTP", !.reply = i]]
    /\ writers' = [writers EXCEPT ![i] = Some(NewHttpResponse(i))]
    /\ heads' = [heads EXCEPT ![i] = NoHeader]
    /\ UNCHANGED authvars

\* Value is called on a recorder that stays in use.
RecValue(i) ==
    /\ inv[i].pc = "ServeHTTP"
    /\ inv[i].resp = None
    /\ inv' = [inv EXCEPT ![i].resp = Some(Value(writers[inv[i].reply][1])),
                          ![i].taken = Some(Len(inv[i].log))]
    /\ UNCHANGED <<writers, heads, authvars>>

\* Value is called once more, nothing having been written since the first call.
RecValueAgain(i) ==
    /\ inv[i].pc = "ServeHTTP"
    /\ inv[i].resp # None
    /\ inv[i].again = None
    /\ inv[i].taken = Some(Len(inv[i].log))
    /\ inv' = [inv EXCEPT ![i].again = Some(Value(writers[inv[i].reply][1]))]
    /\ UNCHANGED <<writers, heads, authvars>>

\* The recorder and the responses it returned are dropped.
RecDrop(i) ==
    /\ inv[i].pc = "ServeHTTP"
    /\ inv[i].resp # None
    /\ inv' = [inv EXCEPT ![i] = IdleInv]
    /\ writers' = [writers EXCEPT ![i] = None]
    /\ heads' = [heads EXCEPT ![i] = NoHeader]
    /\ UNCHANGED authvars

GwInit ==
    /\ inv = [i \in Slots |-> IdleInv]
    /\ writers = [i \in Slots |-> None]
    /\ heads = [i \in Slots |-> NoHeader]


(***************************************************************************)
(* pkg/auth: the authenticated transports.                                 *)
(***************************************************************************)
\* Bounds of the model
MaxTransports == 2   \* transports built by NewTransportApiKey / NewTransportIAM
NumCalls == 2        \* outbound calls that may be in flight together
MaxUses == 2         \* calls a caller makes with one *http.Request object
MaxExpiries == 1     \* times the cached credential of one provider expires

TransportIds == 1..MaxTransports
CallIds == 1..NumCalls

\* references to http.RoundTripper values
NilTransport == 0
DefaultTransport == -1     \* http.DefaultTransport
CallerTransport == -2      \* a RoundTripper the caller has put into its Client

\* references to *http.Client values: the caller's own client, and the
\* client NewTransport* allocates for transport t when it is given none
NilClient == 0
CallerClient == 1
ClientIds == 1..(1 + MaxTransports)
AllocatedClient(t) == 1 + t

\* aws.Config: the region and the credentials provider
ConfigOf(region, provider, role, externalID, base) ==
    [Region |-> region,
     Credentials |-> [provider |-> provider, role |-> role,
                      externalID |-> externalID, base |-> base]]

NoConfig == ConfigOf(<<>>, "none", <<>>, <<>>, "none")
\* what config.LoadDefaultConfig(ctx) yields
AmbientConfig == ConfigOf(S_euWest1, "ambient", <<>>, <<>>, "none")
\* a configuration the caller supplies in ConfigIAM.Config
SuppliedConfig == ConfigOf(S_usEast1, "supplied", <<>>, <<>>, "none")
\* LoadDefaultConfig with a cached AssumeRole provider over the base config
AssumedConfig(base, role, externalID) ==
    ConfigOf(S_euWest1, "assumeRole", role, externalID, base.Credentials.provider)

\* the inputs of the constructors
Urls == {<<>>, S_Url}
ApiKeys == {<<S_access, S_secret>>, <<S_a, S_b>>}
IamOptions == {<<"nil", <<>>, <<>>>>, <<"supplied", S_Role, S_ext>>}
CallerClients == {NilClient, CallerClient}

\* the result of a constructor call
NoCtor ==
    [spec       |-> None,        \* the Url and the Client of the configuration
     err        |-> Nil,
     Endpoint   |-> <<>>,        \* StreamableClientTransport.Endpoint
     HTTPClient |-> NilClient,   \* StreamableClientTransport.HTTPClient
     loads      |-> 0,           \* calls of config.LoadDefaultConfig
     providers  |-> 0]           \* AssumeRole providers created

apikeyTransport(digest, socket) ==
    [kind |-> "apikey", digest |-> digest, config |-> NoConfig,
     signer |-> "none", socket |-> socket]

iamTransport(config, socket) ==
    [kind |-> "iam", digest |-> <<>>, config |-> config,
     signer |-> "v4", socket |-> socket]

\* variant: the digest of access and secret without the colon
ApiKeyDigestNoColon(access, secret) == RawStdEncode(access \o secret)

\* base64.RawStdEncoding.EncodeToString([]byte(spec.Access + ":" + spec.Secret))
ApiKeyDigest(access, secret) == RawStdEncode(access \o S_Colon \o secret)

HasFreeTransport == \E t \in TransportIds : transports[t] = None
FreeTransport ==
    CHOOSE t \in TransportIds :
        transports[t] = None /\ \A u \in TransportIds : u < t => transports[u] # None

\* the inner transport a constructor picks: the client's, else the default
SocketFor(cl) ==
    IF cl # NilClient /\ clients[cl][1].Transport # NilTransport
    THEN clients[cl][1].Transport
    ELSE DefaultTransport

\* the tail of both constructors: the transport sock becomes the Transport of
\* the client (a new one when none was given), which the result refers to
Install(t, cl, sock, url, loads, providers) ==
    LET c == IF cl = NilClient THEN AllocatedClient(t) ELSE cl
    IN  /\ transports' = [transports EXCEPT ![t] = Some(sock)]
        /\ clients' = [clients EXCEPT ![c] = Some([Transport |-> t])]
        /\ ctor' = [NoCtor EXCEPT !.spec = Some([Url |-> url, Client |-> cl]),
                                  !.Endpoint = url, !.HTTPClient = c,
                                  !.loads = loads, !.providers = providers]

Fail(err, url, cl, loads, providers) ==
    /\ ctor' = [NoCtor EXCEPT !.spec = Some([Url |-> url, Client |-> cl]),
                              !.err = err, !.loads = loads, !.providers = providers]
    /\ UNCHANGED <<transports, clients>>

NewTransportApiKey(url, access, secret, cl) ==
    /\ cl # NilClient => clients[cl] # None
    /\ IF Len(url) = 0
       THEN Fail("missing URL config", url, cl, 0, 0)
       ELSE /\ HasFreeTransport
            /\ Install(FreeTransport, cl,
                       apikeyTransport(ApiKeyDigest(access, secret), SocketFor(cl)),
                       url, 0, 0)
    /\ UNCHANGED <<requests, rt, sts, gwvars>>

\* variant: the URL is looked at after the configuration is loaded
NewTransportIAMLateUrlCheck(url, cfg, role, externalID, cl, loadOk, assumeOk) ==
    /\ cl # NilClient => clients[cl] # None
    /\ LET loads1 == IF cfg = "nil" THEN 1 ELSE 0
           base == IF cfg = "nil" THEN AmbientConfig ELSE SuppliedConfig
       IN  IF cfg = "nil" /\ ~loadOk
           THEN Fail("load config", url, cl, loads1, 0)
           ELSE IF Len(url) = 0
           THEN Fail("missing URL config", url, cl, loads1, 0)
           ELSE IF role # <<>> /\ ~assumeOk
           THEN Fail("load config", url, cl, loads1 + 1, 1)
           ELSE /\ HasFreeTransport
                /\ IF role # <<>>
                   THEN Install(FreeTransport, cl,
                                iamTransport(AssumedConfig(base, role, externalID),
                                             SocketFor(cl)),
                                url, loads1 + 1, 1)
                   ELSE Install(FreeTransport, cl, iamTransport(base, SocketFor(cl)),
                                url, loads1, 0)
    /\ UNCHANGED <<requests, rt, sts, gwvars>>

\* cfg is "nil" or "supplied" (spec.Config); loadOk and assumeOk are the
\* outcomes of the two config.LoadDefaultConfig calls
NewTransportIAM(url, cfg, role, externalID, cl, loadOk, assumeOk) ==
    /\ cl # NilClient => clients[cl] # None
    /\ LET loads1 == IF cfg = "nil" THEN 1 ELSE 0
           base == IF cfg = "nil" THEN AmbientConfig ELSE SuppliedConfig
       IN  IF Len(url) = 0
           THEN Fail("missing URL config", url, cl, 0, 0)
           ELSE IF cfg = "nil" /\ ~loadOk
           THEN Fail("load config", url, cl, loads1, 0)
           ELSE IF role # <<>> /\ ~assumeOk
           THEN Fail("load config", url, cl, loads1 + 1, 1)
           ELSE /\ HasFreeTransport
                /\ IF role # <<>>
                   THEN Install(FreeTransport, cl,
                                iamTransport(AssumedConfig(base, role, externalID),
                                             SocketFor(cl)),
                                url, loads1 + 1, 1)
                   ELSE Install(FreeTransport, cl, iamTransport(base, SocketFor(cl)),
                                url, loads1, 0)
    /\ UNCHANGED <<requests, rt, sts, gwvars>>

(***************************************************************************)
(* Outbound requests. A body is a reader: the bytes it still yields, and   *)
(* whether reading it ends with an error instead of EOF.                   *)
(***************************************************************************)
BodyOf(data, broken) == Some([data |-> data, broken |-> broken])

OutRequests ==
    [Method : {S_POST}, Path : {S_PathMcp},
     Header : {NoHeader, (S_Authorization :> <<S_BearerX>>)},
     Body : {None, BodyOf(<<>>, FALSE), BodyOf(S_Hi, FALSE), BodyOf(S_Hi, TRUE)}]

\* the requests of the interleaved calls
ConcRequests ==
    {[Method |-> S_POST, Path |-> S_PathMcp, Header |-> NoHeader, Body |-> None],
     [Method |-> S_POST, Path |-> S_PathMcp, Header |-> NoHeader,
      Body |-> BodyOf(S_Hi, FALSE)],
     [Method |-> S_POST, Path |-> S_PathMcp,
      Header |-> (S_Authorization :> <<S_BearerX>>), Body |-> BodyOf(S_Ping, FALSE)]}

\* the rotations of the credentials and the clock readings of the interleaved
\* calls, and those of the calls made one at a time
CredVersions == {S_v1, S_v2}
Times == {S_Time0, S_Time1}
SeqCredVersions == {S_v1}
SeqTimes == {S_Time0}

NoCred == [akid |-> <<>>, token |-> <<>>, version |-> <<>>]

\* aws.NewCredentialsCache(stscreds.NewAssumeRoleProvider(...)) as construction
\* leaves it: nothing cached, no exchange made
NoSts ==
    [cached  |-> None,   \* the rotation of the cached credential
     granted |-> 0,      \* sts:AssumeRole exchanges that returned a credential
     expired |-> 0]      \* cached credentials that have expired

AssumesRole(t) == transports[t][1].config.Credentials.provider = "assumeRole"

\* what aws.Config.Credentials.Retrieve yields when it succeeds; version is
\* the rotation of the credentials the provider is at
Credential(config, version) ==
    [akid    |-> IF config.Credentials.provider = "assumeRole" THEN S_AkidRole
                 ELSE IF config.Credentials.provider = "supplied" THEN S_AkidSupplied
                 ELSE S_AkidAmbient,
     token   |-> IF config.Credentials.provider = "assumeRole" THEN S_token ELSE <<>>,
     version |-> version]

\* hex.EncodeToString(sha256.Sum(data)) on the bodies of the model
Sha256Hex(data) ==
    IF data = <<>> THEN S_EmptyHash
    ELSE IF data = S_Hi THEN S_HashHi
    ELSE IF data = S_Ping THEN S_HashPing
    ELSE <<63>> \o data

\* variant: the body is hashed and left drained
HashBodyNoRestore(body) ==
    IF body = None
    THEN [err |-> Nil, hash |-> S_EmptyHash, body |-> None]
    ELSE IF body[1].broken
    THEN [err |-> "io", hash |-> <<>>, body |-> BodyOf(<<>>, TRUE)]
    ELSE [err |-> Nil, hash |-> Sha256Hex(body[1].data), body |-> BodyOf(<<>>, FALSE)]

\* RoundTrip, the hashing of the body: io.Copy(buf, io.TeeReader(req.Body,
\* hasher)); the body becomes a reader of buf
HashBody(body) ==
    IF body = None
    THEN [err |-> Nil, hash |-> S_EmptyHash, body |-> None]
    ELSE IF body[1].broken
    THEN [err |-> "io", hash |-> <<>>, body |-> BodyOf(<<>>, TRUE)]
    ELSE [err |-> Nil, hash |-> Sha256Hex(body[1].data),
          body |-> BodyOf(body[1].data, FALSE)]

\* v4.Signer.SignHTTP: sets the signature headers of the request. The
\* signature stands for the signed fields by listing them.
SignHTTP(cred, req, hash, service, region, now) ==
    LET sig == Concat(<<S_Aws4, cred.akid, S_Slash, cred.version, S_Slash, region,
                        S_Slash, service, S_Space, req.Method, S_Space, req.Path,
                        S_Space, now, S_Space, hash>>)
        h1 == HeaderSet(req.Header, S_XAmzDate, now)
        h2 == IF cred.token # <<>> THEN HeaderSet(h1, S_XAmzSecurityToken, cred.token)
              ELSE h1
    IN  [req EXCEPT !.Header = HeaderSet(h2, S_Authorization, sig)]

\* an outbound call that has not started
IdleCall ==
    [pc    |-> "idle",     \* idle, enter, hash, sign, done
     at    |-> NilTransport, \* the transport whose RoundTrip runs
     entry |-> None,       \* the request as that RoundTrip received it
     cred  |-> NoCred,     \* credential
     hash  |-> <<>>,       \* hash
     trail |-> <<>>,       \* the RoundTrip calls that have forwarded
     sent  |-> 0,          \* calls of the innermost transport
     wire  |-> None,       \* the request the innermost transport received
     resp  |-> FALSE,      \* a response was returned
     err   |-> Nil,        \* the returned error
     failed |-> Nil]       \* the step of RoundTrip that has failed

\* the fields of a request object
View(req) == [Method |-> req.Method, Path |-> req.Path, Header |-> req.Header,
              Body |-> req.Body]

Wrapped(cl) == clients[cl] # None /\ clients[cl][1].Transport > 0

\* The caller sends a new request through client cl: Client.Transport.RoundTrip.
Call(c, cl, r) ==
    /\ rt[c].pc = "idle"
    /\ Wrapped(cl)
    /\ requests' = [requests EXCEPT ![c] = Some([req |-> r, origin |-> r, uses |-> 1])]
    /\ rt' = [rt EXCEPT ![c] = [IdleCall EXCEPT !.pc = "enter",
                                                !.at = clients[cl][1].Transport,
                                                !.entry = Some(r)]]
    /\ ctor' = NoCtor
    /\ UNCHANGED <<transports, clients, sts, gwvars>>

\* The caller has taken the outcome of its call and sends the same request
\* object once more.
CallAgain(c, cl) ==
    /\ rt[c].pc = "done"
    /\ Wrapped(cl)
    /\ requests[c][1].uses < MaxUses
    /\ requests' = [requests EXCEPT ![c] = Some([@[1] EXCEPT !.uses = @ + 1])]
    /\ rt' = [rt EXCEPT ![c] = [IdleCall EXCEPT !.pc = "enter",
                                                !.at = clients[cl][1].Transport,
                                                !.entry = Some(requests[c][1].req)]]
    /\ UNCHANGED <<transports, clients, ctor, sts, gwvars>>

\* api.socket.RoundTrip(req): the request goes to the next transport. An
\* authenticated transport runs its own RoundTrip on it; the innermost one
\* reads the body and sends.
Forward(c, req, cred, hash, now) ==
    LET t == rt[c].at
        sock == transports[t][1].socket
        step == [t |-> t, kind |-> transports[t][1].kind, entry |-> rt[c].entry[1],
                 handed |-> req, cred |-> cred, hash |-> hash, now |-> now]
    IN  IF sock > 0
        THEN /\ requests' = [requests EXCEPT ![c] = Some([@[1] EXCEPT !.req = req])]
             /\ rt' = [rt EXCEPT ![c] = [@ EXCEPT !.pc = "enter", !.at = sock,
                                                  !.entry = Some(req),
                                                  !.cred = NoCred, !.hash = <<>>,
                                                  !.trail = Append(@, step)]]
        ELSE /\ requests' = [requests EXCEPT ![c] =
                               Some([@[1] EXCEPT !.req =
                                       [req EXCEPT !.Body =
                                          IF @ = None THEN None
                                          ELSE BodyOf(<<>>, @[1].broken)]])]
             /\ rt' = [rt EXCEPT ![c] =
                         [@ EXCEPT !.pc = "done",
                                   !.trail = Append(@, step),
                                   !.sent = @ + 1,
                                   !.wire = Some([to |-> sock, req |-> req]),
                                   !.resp = (req.Body = None \/ ~req.Body[1].broken),
                                   !.err = IF req.Body # None /\ req.Body[1].broken
                                           THEN "send" ELSE Nil]]

\* apikeyTransport.RoundTrip
ApiKeyRoundTrip(c) ==
    /\ rt[c].pc = "enter"
    /\ transports[rt[c].at][1].kind = "apikey"
    /\ LET req == requests[c][1].req
       IN  Forward(c, [req EXCEPT !.Header =
                          HeaderAdd(@, S_Authorization,
                                    S_Basic \o transports[rt[c].at][1].digest)],
                   NoCred, <<>>, <<>>)
    /\ UNCHANGED <<transports, clients, ctor, sts, gwvars>>

\* variant: the cache is not consulted, every Retrieve makes the exchange
RetrieveUncached(c, versions, onError) ==
    LET t == rt[c].at
        got(v) == [rt[c] EXCEPT !.pc = "hash",
                                !.cred = Credential(transports[t][1].config, v)]
    IN  IF AssumesRole(t)
        THEN /\ sts[t].granted <= MaxExpiries
             /\ \E ok \in BOOLEAN, v \in versions :
                   /\ rt' = [rt EXCEPT ![c] = IF ok THEN got(v) ELSE onError]
                   /\ sts' = [sts EXCEPT ![t] =
                                [@ EXCEPT !.granted = IF ok THEN @ + 1 ELSE @,
                                          !.cached = IF ok THEN Some(v) ELSE @]]
        ELSE /\ \E ok \in BOOLEAN, v \in versions :
                   rt' = [rt EXCEPT ![c] = IF ok THEN got(v) ELSE onError]
             /\ UNCHANGED sts

\* api.config.Credentials.Retrieve. The provider of a configuration that
\* assumes a role is a CredentialsCache over an AssumeRole provider: it
\* returns the cached credential while there is one, and otherwise makes the
\* sts:AssumeRole exchange and caches what it is granted. onError is the call
\* after a failed retrieval.
Retrieve(c, versions, onError) ==
    LET t == rt[c].at
        got(v) == [rt[c] EXCEPT !.pc = "hash",
                                !.cred = Credential(transports[t][1].config, v)]
    IN  IF AssumesRole(t)
        THEN IF sts[t].cached # None
             THEN /\ rt' = [rt EXCEPT ![c] = got(sts[t].cached[1])]
                  /\ UNCHANGED sts
             ELSE \E ok \in BOOLEAN, v \in versions :
                     /\ rt' = [rt EXCEPT ![c] = IF ok THEN got(v) ELSE onError]
                     /\ sts' = [sts EXCEPT ![t] =
                                  [@ EXCEPT !.granted = IF ok THEN @ + 1 ELSE @,
                                            !.cached = IF ok THEN Some(v) ELSE @]]
        ELSE /\ \E ok \in BOOLEAN, v \in versions :
                   rt' = [rt EXCEPT ![c] = IF ok THEN got(v) ELSE onError]
             /\ UNCHANGED sts

\* The cached credential of transport t reaches its expiry.
Expire(t) ==
    /\ transports[t] # None
    /\ AssumesRole(t)
    /\ sts[t].cached # None
    /\ sts[t].expired < MaxExpiries
    /\ sts' = [sts EXCEPT ![t] = [@ EXCEPT !.cached = None, !.expired = @ + 1]]
    /\ UNCHANGED <<transports, clients, ctor, requests, rt, gwvars>>

\* variant: RoundTrip goes on without a credential when Retrieve fails
IamRetrieveGoesOn(c, versions) ==
    /\ rt[c].pc = "enter"
    /\ transports[rt[c].at][1].kind = "iam"
    /\ Retrieve(c, versions, [rt[c] EXCEPT !.pc = "hash", !.failed = "credential"])
    /\ UNCHANGED <<transports, clients, ctor, requests, gwvars>>

\* iamTransport.RoundTrip: api.config.Credentials.Retrieve
IamRetrieve(c, versions) ==
    /\ rt[c].pc = "enter"
    /\ transports[rt[c].at][1].kind = "iam"
    /\ Retrieve(c, versions, [rt[c] EXCEPT !.pc = "done", !.err = "credential",
                                           !.failed = "credential"])
    /\ UNCHANGED <<transports, clients, ctor, requests, gwvars>>

\* iamTransport.RoundTrip: the content hash
IamHashBody(c) ==
    /\ rt[c].pc = "hash"
    /\ LET h == HashBody(requests[c][1].req.Body)
       IN  /\ requests' = [requests EXCEPT ![c] =
                             Some([@[1] EXCEPT !.req = [@ EXCEPT !.Body = h.body]])]
           /\ rt' = [rt EXCEPT ![c] =
                       IF h.err # Nil
                       THEN [@ EXCEPT !.pc = "done", !.err = h.err, !.failed = h.err]
                       ELSE [@ EXCEPT !.pc = "sign", !.hash = h.hash]]
    /\ UNCHANGED <<transports, clients, ctor, sts, gwvars>>

\* variant: the hash is kept in one place for all calls
HashOfShared(c) == rt[1].hash

\* the hash RoundTrip passes to the signer: its local variable
HashOf(c) == rt[c].hash

\* iamTransport.RoundTrip: api.signer.SignHTTP and api.socket.RoundTrip
IamSign(c, times) ==
    /\ rt[c].pc = "sign"
    /\ \E ok \in BOOLEAN, now \in times :
          IF ok
          THEN Forward(c, SignHTTP(rt[c].cred, requests[c][1].req, HashOf(c),
                                   S_executeApi,
                                   transports[rt[c].at][1].config.Region, now),
                       rt[c].cred, HashOf(c), now)
          ELSE /\ rt' = [rt EXCEPT ![c] = [@ EXCEPT !.pc = "done", !.err = "signing",
                                                    !.failed = "signing"]]
               /\ UNCHANGED requests
    /\ UNCHANGED <<transports, clients, ctor, sts, gwvars>>

\* The caller has taken the outcome of the call and drops the request.
Finish(c) ==
    /\ rt[c].pc = "done"
    /\ rt' = [rt EXCEPT ![c] = IdleCall]
    /\ requests' = [requests EXCEPT ![c] = None]
    /\ UNCHANGED <<transports, clients, ctor, sts, gwvars>>

AuthInit ==
    /\ transports = [t \in TransportIds |-> None]
    /\ \E tr \in {NilTransport, CallerTransport} :
          clients = [c \in ClientIds |->
                        IF c = CallerClient THEN Some([Transport |-> tr]) ELSE None]
    /\ ctor = NoCtor
    /\ requests = [c \in CallIds |-> None]
    /\ rt = [c \in CallIds |-> IdleCall]
    /\ sts = [t \in TransportIds |-> NoSts]

\* no transport has been built
AuthIdle ==
    /\ transports = [t \in TransportIds |-> None]
    /\ clients = [c \in ClientIds |->
                    IF c = CallerClient THEN Some([Transport |-> NilTransport]) ELSE None]
    /\ ctor = NoCtor
    /\ requests = [c \in CallIds |-> None]
    /\ rt = [c \in CallIds |-> IdleCall]
    /\ sts = [t \in TransportIds |-> NoSts]

\* NewTransportApiKey("access", "secret") and NewTransportIAM have been called,
\* each without a client
AuthBuilt ==
    /\ transports = [t \in TransportIds |->
                       IF t = 1
                       THEN Some(apikeyTransport(ApiKeyDigest(S_access, S_secret),
                                                 DefaultTransport))
                       ELSE IF t = 2
                       THEN Some(iamTransport(AmbientConfig, DefaultTransport))
                       ELSE None]
    /\ clients = [c \in ClientIds |->
                    IF c = CallerClient THEN Some([Transport |-> NilTransport])
                    ELSE IF c \in {AllocatedClient(1), AllocatedClient(2)}
                    THEN Some([Transport |-> c - 1])
                    ELSE None]
    /\ ctor = [NoCtor EXCEPT !.spec = Some([Url |-> S_Url, Client |-> NilClient]),
                             !.Endpoint = S_Url, !.HTTPClient = AllocatedClient(2),
                             !.loads = 1]
    /\ requests = [c \in CallIds |-> None]
    /\ rt = [c \in CallIds |-> IdleCall]
    /\ sts = [t \in TransportIds |-> NoSts]

Init == GwInit /\ AuthIdle

InitAuth == GwInit /\ AuthInit

InitAuthConcurrent == GwInit /\ AuthBuilt

\* Transports are built and called, one step of the caller at a time.
NextAuth ==
    \/ /\ rt[1].pc = "idle"
       /\ \E url \in Urls, k \in ApiKeys, cl \in CallerClients :
             NewTransportApiKey(url, k[1], k[2], cl)
    \/ /\ rt[1].pc = "idle"
       /\ \E url \in Urls, o \in IamOptions, cl \in CallerClients,
             loadOk, assumeOk \in BOOLEAN :
             NewTransportIAM(url, o[1], o[2], o[3], cl, loadOk, assumeOk)
    \/ \E cl \in ClientIds, r \in OutRequests : Call(1, cl, r)
    \/ \E cl \in ClientIds : CallAgain(1, cl)
    \/ ApiKeyRoundTrip(1)
    \/ IamRetrieve(1, SeqCredVersions)
    \/ IamHashBody(1)
    \/ IamSign(1, SeqTimes)
    \/ Finish(1)

SpecAuth == InitAuth /\ [][NextAuth]_vars

\* Interleaved calls through the two built transports.
NextAuthConcurrent ==
    \E c \in CallIds :
        \/ \E cl \in ClientIds, r \in ConcRequests : Call(c, cl, r)
        \/ ApiKeyRoundTrip(c)
        \/ IamRetrieve(c, CredVersions)
        \/ IamHashBody(c)
        \/ IamSign(c, Times)
        \/ Finish(c)

SpecAuthConcurrent == InitAuthConcurrent /\ [][NextAuthConcurrent]_vars

\* the request of the calls through a transport that assumes a role
RoleRequests ==
    {[Method |-> S_POST, Path |-> S_PathMcp, Header |-> NoHeader, Body |-> None]}

\* One transport that assumes a role is built; calls interleave through it
\* while its cached credential expires.
NextRole ==
    \/ /\ transports[1] = None
       /\ \E cfg \in {"nil", "supplied"}, externalID \in {<<>>, S_ext}, assumeOk \in BOOLEAN :
             NewTransportIAM(S_Url, cfg, S_Role, externalID, NilClient, TRUE, assumeOk)
    \/ \E c \in CallIds :
          \/ \E cl \in ClientIds, r \in RoleRequests : Call(c, cl, r)
          \/ IamRetrieve(c, CredVersions)
          \/ IamHashBody(c)
          \/ IamSign(c, SeqTimes)
          \/ Finish(c)
    \/ \E t \in TransportIds : Expire(t)

SpecRole == Init /\ [][NextRole]_vars

\* The adapter on its own, on several events side by side.
NextAdapter ==
    \E i \in Slots :
        \/ \E r \in AdaptEvents : AdaptRequest(i, r)
        \/ Complete(i)

SpecAdapter == Init /\ [][NextAdapter]_vars

\* A recorder on its own: written to before and after Value.
NextRecorder ==
    \/ RecNew(1)
    \/ \E c \in StatusCodes : CtrlWriteHeader(1, c, MaxOps)
    \/ \E b \in Chunks : CtrlWrite(1, b, MaxOps)
    \/ \E kv \in ReplyHeaders : CtrlHeaderAdd(1, kv, MaxOps)
    \/ RecValue(1)
    \/ RecValueAgain(1)
    \/ RecDrop(1)

SpecRecorder == Init /\ [][NextRecorder]_vars


\* One invocation at a time, over every event.
Next ==
    \/ \E r \in Events : Invoke(1, r)
    \/ \E c \in StatusCodes : CtrlWriteHeader(1, c, MaxOps)
    \/ \E b \in Chunks : CtrlWrite(1, b, MaxOps)
    \/ \E kv \in ReplyHeaders : CtrlHeaderAdd(1, kv, MaxOps)
    \/ CtrlReadBody(1)
    \/ CtrlReturn(1)
    \/ Complete(1)

Spec == Init /\ [][Next]_vars

\* Interleaved invocations.
NextConcurrent ==
    \E i \in Slots :
        \/ \E r \in ConcEvents : Invoke(i, r)
        \/ \E c \in ConcStatusCodes : CtrlWriteHeader(i, c, MaxConcOps)
        \/ \E b \in ConcChunks : CtrlWrite(i, b, MaxConcOps)
        \/ \E kv \in ConcReplyHeaders : CtrlHeaderAdd(i, kv, MaxConcOps)
        \/ CtrlReturn(i)
        \/ Complete(i)

SpecConcurrent == Init /\ [][NextConcurrent]_vars

(***************************************************************************)
(* Properties of the gateway.                                              *)
(***************************************************************************)
Started(i) == inv[i].pc # "idle"
Event(i) == inv[i].req[1]

RejectStreaming ==
    [StatusCode |-> 405, Headers |-> Nil, MultiValueHeaders |-> NoRef, Body |-> <<>>]

\* the request and the route of an event are those serveCtrl gives the bare event
ConstructionOk(r) ==
    validMethod(IF r.HTTPMethod = <<>> THEN S_GET ELSE r.HTTPMethod) /\ urlParseOk(r.Path)

\* the status, body and headers a handler's calls amount to
LogStatus(log) ==
    LET set == {n \in 1..Len(log) : log[n][1] = "WriteHeader"}
    IN  IF set = {} THEN 200
        ELSE log[CHOOSE n \in set : \A m \in set : m <= n][2]

RECURSIVE LogBody(_)
LogBody(log) ==
    IF log = <<>> THEN <<>>
    ELSE (IF Head(log)[1] = "Write" THEN Head(log)[2] ELSE <<>>) \o LogBody(Tail(log))

RECURSIVE LogHeaders(_, _)
LogHeaders(h, log) ==
    IF log = <<>> THEN h
    ELSE LogHeaders(IF Head(log)[1] = "Header"
                    THEN HeaderAdd(h, Head(log)[2][1], Head(log)[2][2])
                    ELSE h,
                    Tail(log))

\* C1: an event whose httpMethod is exactly "GET" is answered with status 405,
\* no headers, an empty body and no error, whatever its other fields are; the
\* handler is not invoked and no envelope decode is attempted.
C1_GetRejected ==
    \A i \in Slots :
        (Started(i) /\ Event(i).HTTPMethod = S_GET) =>
            /\ inv[i].pc = "done"
            /\ inv[i].resp = Some(RejectStreaming)
            /\ inv[i].err = Nil
            /\ inv[i].served = 0
            /\ inv[i].decoded = 0

\* a GET with a non-empty body that is no JSON-RPC message, base64 flag set
C1_Witness ==
    \E i \in Slots :
        /\ inv[i].pc = "done"
        /\ Event(i).HTTPMethod = S_GET
        /\ Event(i).Body = S_Brace
        /\ Event(i).IsBase64Encoded
        /\ Event(i).Path = S_PathBadEscape
        /\ inv[i].resp # None

\* C2: a non-GET event whose non-empty body fails to decode ends with an
\* error and no response; the handler is not invoked and neither a request
\* nor a recorder is built.
C2_DecodeErrorAborts ==
    \A i \in Slots :
        (/\ Started(i)
         /\ Event(i).HTTPMethod # S_GET
         /\ Len(Event(i).Body) > 0
         /\ DecodeMessage(Event(i).Body).err # Nil) =>
            /\ inv[i].pc = "done"
            /\ inv[i].err # Nil
            /\ inv[i].resp = None
            /\ inv[i].served = 0
            /\ inv[i].input = None
            /\ inv[i].reply = NoRef
            /\ writers[i] = None

C2_Witness ==
    \E i \in Slots :
        /\ inv[i].pc = "done"
        /\ Event(i).HTTPMethod = S_POST
        /\ Event(i).Body = S_PingV1
        /\ inv[i].err = "bad json-rpc message"

\* what C3 and C4 say of every event with a JSON-RPC body or an empty body
WellFormedBody(i) ==
    /\ Started(i)
    /\ Event(i).HTTPMethod # S_GET
    /\ Len(Event(i).Body) > 0
    /\ DecodeMessage(Event(i).Body).err = Nil

\* C3 as stated: for every non-GET event with a well-formed JSON-RPC body the
\* envelope decodes, the handler is invoked exactly once and the bytes it
\* reads are the event's body bytes.
C3_AsStated ==
    \A i \in Slots :
        WellFormedBody(i) =>
            /\ inv[i].decoded = 1
            /\ inv[i].msg # None
            /\ inv[i].served = 1
            /\ inv[i].read # None =>
                  (inv[i].read[1].data = Event(i).Body /\ ~inv[i].read[1].err)

\* C3 as amended: for every non-GET event with a well-formed JSON-RPC body the
\* envelope decodes and the decoding is observational: the request and the
\* route are those of the bare event. The handler is invoked exactly once when
\* the method and path form a request, and not at all (a construction error is
\* returned) otherwise; the bytes it reads are the body bytes when
\* isBase64Encoded is unset and their base64 decoding when it is set.
C3_DecodeObservational ==
    \A i \in Slots :
        WellFormedBody(i) =>
            /\ inv[i].decoded = 1
            /\ inv[i].msg # None /\ inv[i].msg[1].wire = Event(i).Body
            /\ \E order \in KeyOrders(Event(i).Headers) :
                  inv[i].input = NewHttpRequest(Event(i), order).req
            /\ IF ConstructionOk(Event(i))
               THEN inv[i].served = 1 /\ inv[i].err = Nil
               ELSE /\ inv[i].served = 0 /\ inv[i].resp = None
                    /\ inv[i].err \in {"invalid method", "invalid url"}
            /\ (inv[i].read # None /\ ~Event(i).IsBase64Encoded) =>
                  (inv[i].read[1].data = Event(i).Body /\ ~inv[i].read[1].err)
            /\ (inv[i].read # None /\ Event(i).IsBase64Encoded) =>
                  inv[i].read[1] = StdDecodeStream(Event(i).Body)

\* the handler has read the body of a decoded event and returned
C3_Witness ==
    \E i \in Slots :
        /\ inv[i].pc = "done"
        /\ Event(i).HTTPMethod = S_POST
        /\ Event(i).Body = S_Ping
        /\ ~Event(i).IsBase64Encoded
        /\ inv[i].msg # None
        /\ inv[i].read # None /\ inv[i].read[1].data = S_Ping
        /\ inv[i].resp # None

\* C4 as stated: for every non-GET event with an empty body the decode is
\* skipped, the handler is invoked exactly once with a body that reads as zero
\* bytes, and the call does not fail with a decode error.
C4_AsStated ==
    \A i \in Slots :
        (Started(i) /\ Event(i).HTTPMethod # S_GET /\ Len(Event(i).Body) = 0) =>
            /\ inv[i].decoded = 0
            /\ inv[i].served = 1
            /\ inv[i].err # "bad json-rpc message"
            /\ inv[i].read # None => inv[i].read[1].data = <<>>

\* C4 as amended: for every non-GET event with an empty body the decode is
\* skipped and the call does not fail with a decode error; when the method and
\* path form a request the handler is invoked exactly once with a body that
\* reads as zero bytes, and otherwise Serve returns the construction error
\* without invoking it.
C4_EmptyBodyDelegated ==
    \A i \in Slots :
        (Started(i) /\ Event(i).HTTPMethod # S_GET /\ Len(Event(i).Body) = 0) =>
            /\ inv[i].decoded = 0
            /\ inv[i].msg = None
            /\ inv[i].err # "bad json-rpc message"
            /\ IF ConstructionOk(Event(i))
               THEN inv[i].served = 1 /\ inv[i].err = Nil
               ELSE /\ inv[i].served = 0 /\ inv[i].resp = None
                    /\ inv[i].err \in {"invalid method", "invalid url"}
            /\ inv[i].read # None =>
                  (inv[i].read[1].data = <<>> /\ ~inv[i].read[1].err)

\* the handler has read the empty body, base64 flag set
C4_Witness ==
    \E i \in Slots :
        /\ inv[i].pc = "done"
        /\ Event(i).HTTPMethod = S_POST
        /\ Event(i).Body = <<>>
        /\ Event(i).IsBase64Encoded
        /\ inv[i].served = 1
        /\ inv[i].read # None /\ inv[i].read[1].data = <<>>

\* C5: every invocation ends with a response or an error and not both, and
\* has neither before it ends; the handler is invoked at most once, and the
\* response of an invocation that invoked it is there only once the handler
\* has returned and holds the status, headers and body of that invocation's
\* own writes, whatever the other invocations do meanwhile.
C5_OneOutcome ==
    \A i \in Slots :
        /\ inv[i].served <= 1
        /\ inv[i].pc # "done" => (inv[i].resp = None /\ inv[i].err = Nil)
        /\ inv[i].pc = "done" => ((inv[i].resp # None) # (inv[i].err # Nil))
        /\ (inv[i].pc = "done" /\ inv[i].served = 0 /\ inv[i].resp # None) =>
              (Event(i).HTTPMethod = S_GET /\ inv[i].resp[1] = RejectStreaming)
        /\ (inv[i].pc = "done" /\ inv[i].served = 1) =>
              /\ inv[i].resp # None
              /\ inv[i].resp[1].StatusCode = LogStatus(inv[i].log)
              /\ inv[i].resp[1].Body = LogBody(inv[i].log)
              /\ inv[i].resp[1].MultiValueHeaders # NoRef
              /\ heads[inv[i].resp[1].MultiValueHeaders] = LogHeaders(NoHeader, inv[i].log)

\* two invocations were inside the handler together, and both have ended with
\* the response of their own writes
C5_Witness ==
    /\ inv[1].pc = "done" /\ inv[2].pc = "done"
    /\ inv[1].log = << <<"Write", S_Hi>> >>
    /\ inv[2].log = << <<"Header", <<S_contentType, S_json>> >> >>
    /\ inv[1].resp # None /\ inv[1].resp[1].Body = S_Hi
    /\ inv[2].resp # None /\ inv[2].resp[1].Body = <<>>
    /\ heads[1] = NoHeader
    /\ heads[2] = (S_ContentType :> <<S_json>>)

\* C6: the finalized status is 200 when the handler never set one and the
\* most recently set one otherwise, wherever the body writes fall.
C6_LastStatusWins ==
    \A i \in Slots :
        (inv[i].pc = "done" /\ inv[i].served = 1) =>
            inv[i].resp[1].StatusCode = LogStatus(inv[i].log)

C6_Witness ==
    \E i \in Slots :
        /\ inv[i].pc = "done"
        /\ inv[i].log = << <<"WriteHeader", 201>>, <<"Write", S_Hi>>, <<"WriteHeader", 404>> >>
        /\ inv[i].resp[1].StatusCode = 404


(***************************************************************************)
(* Properties of the authenticated transports.                             *)
(***************************************************************************)
\* the content hash of the request a RoundTrip received
OwnHash(req) == IF req.Body = None THEN S_EmptyHash ELSE Sha256Hex(req.Body[1].data)

\* the body of the request a RoundTrip received, as a reader at its start
OwnBody(req) == IF req.Body = None THEN None ELSE BodyOf(req.Body[1].data, FALSE)

\* no step writes a field of a transport that has been built
TransportsFixed ==
    [][\A t \in TransportIds : transports[t] # None => transports'[t] = transports[t]]_vars

\* a step of one call leaves the other calls and their requests alone
CallsApart ==
    [][\A c \in CallIds :
          (rt'[c] # rt[c] \/ requests'[c] # requests[c]) =>
              \A d \in CallIds \ {c} : rt'[d] = rt[d] /\ requests'[d] = requests[d]]_vars

\* C7: the signed-request transport passes the signer the empty-body constant
\* when the request has no body, and otherwise the SHA-256 of exactly the
\* body's bytes, and hands the inner transport a body that reads as those bytes.
C7_HashThenRestore ==
    \A c \in CallIds :
        /\ rt[c].pc = "sign" =>
              /\ rt[c].hash = OwnHash(rt[c].entry[1])
              /\ requests[c][1].req.Body = OwnBody(rt[c].entry[1])
        /\ \A i \in DOMAIN rt[c].trail :
              LET s == rt[c].trail[i]
              IN  s.kind = "iam" =>
                     IF s.entry.Body = None
                     THEN s.hash = S_EmptyHash /\ s.handed.Body = None
                     ELSE /\ s.entry.Body[1].data = <<>> => s.hash = S_EmptyHash
                          /\ s.entry.Body[1].data = S_Hi => s.hash = S_HashHi
                          /\ s.entry.Body[1].data = S_Ping => s.hash = S_HashPing
                          /\ s.handed.Body = BodyOf(s.entry.Body[1].data, FALSE)
                          /\ (i = Len(rt[c].trail) /\ rt[c].wire # None) =>
                                rt[c].wire[1].req.Body = BodyOf(s.entry.Body[1].data, FALSE)

\* a request with the body "Hi" has gone through a signed-request transport to
\* the network
C7_Witness ==
    \E c \in CallIds :
        /\ rt[c].pc = "done" /\ rt[c].resp /\ rt[c].sent = 1
        /\ \E i \in DOMAIN rt[c].trail :
              /\ rt[c].trail[i].kind = "iam"
              /\ rt[c].trail[i].entry.Body = BodyOf(S_Hi, FALSE)
              /\ rt[c].trail[i].hash = S_HashHi
        /\ rt[c].wire[1].req.Body = BodyOf(S_Hi, FALSE)

\* C8: when the retrieval of the credential, the reading of the body or the
\* signing fails, RoundTrip has returned that error and no response, the
\* failing transport has not forwarded, nothing has reached the network, and
\* no step is taken again.
C8_FailureAborts ==
    \A c \in CallIds :
        rt[c].failed # Nil =>
            /\ rt[c].pc = "done"
            /\ rt[c].err = rt[c].failed
            /\ rt[c].err \in {"credential", "io", "signing"}
            /\ ~rt[c].resp
            /\ rt[c].sent = 0
            /\ rt[c].wire = None
            /\ \A i \in DOMAIN rt[c].trail : rt[c].trail[i].t # rt[c].at

\* the body of a request could not be read by a signed-request transport that
\* a shared-secret transport had forwarded to
C8_Witness ==
    \E c \in CallIds :
        /\ rt[c].pc = "done"
        /\ rt[c].failed = "io"
        /\ rt[c].entry[1].Body = BodyOf(S_Hi, TRUE)
        /\ Len(rt[c].trail) = 1
        /\ rt[c].trail[1].kind = "apikey"

\* what the shared-secret transports have forwarded
ApiKeyForwarded ==
    \A c \in CallIds :
        /\ rt[c].sent <= 1
        /\ (rt[c].pc = "done" /\ rt[c].failed = Nil) => rt[c].sent = 1
        /\ \A i \in DOMAIN rt[c].trail :
              LET s == rt[c].trail[i]
                  d == transports[s.t][1].digest
              IN  s.kind = "apikey" =>
                     /\ d \in {S_accessSecretDigest, S_abDigest}
                     /\ s.handed.Method = s.entry.Method
                     /\ s.handed.Path = s.entry.Path
                     /\ s.handed.Body = s.entry.Body
                     /\ DOMAIN s.handed.Header = DOMAIN s.entry.Header \cup {S_Authorization}
                     /\ \A k \in DOMAIN s.entry.Header \ {S_Authorization} :
                           s.handed.Header[k] = s.entry.Header[k]
                     /\ s.handed.Header[S_Authorization] =
                           HeaderValues(s.entry.Header, S_Authorization) \o <<S_Basic \o d>>
                     /\ \A j \in DOMAIN rt[c].trail : j # i => rt[c].trail[j].t # s.t

\* C9: the digest of a shared-secret transport is base64(access ":" secret)
\* without padding and stays what construction made it; every call hands the
\* inner transport the caller's request with Authorization: Basic <digest>
\* added and nothing else changed, once.
C9_BasicDigestOnEveryCall == []ApiKeyForwarded /\ TransportsFixed

\* a request object has gone twice through the transport of "access" and
\* "secret", and carries the same value from both calls
C9_Witness ==
    \E c \in CallIds :
        /\ rt[c].pc = "done" /\ rt[c].sent = 1
        /\ requests[c][1].uses = 2
        /\ Len(rt[c].trail) = 1
        /\ rt[c].trail[1].kind = "apikey"
        /\ rt[c].trail[1].handed.Header[S_Authorization] =
              <<S_Basic \o S_accessSecretDigest, S_Basic \o S_accessSecretDigest>>

\* what the interleaved calls have forwarded: the headers and the hash of
\* each come from its own request, credential and clock reading
OwnForwarded ==
    \A c \in CallIds :
        /\ rt[c].pc = "sign" => rt[c].hash = OwnHash(rt[c].entry[1])
        /\ \A i \in DOMAIN rt[c].trail :
              LET s == rt[c].trail[i]
              IN  /\ s.entry = requests[c][1].origin
                  /\ IF s.kind = "apikey"
                     THEN s.handed =
                             [s.entry EXCEPT !.Header =
                                 HeaderAdd(@, S_Authorization,
                                           S_Basic \o S_accessSecretDigest)]
                     ELSE /\ s.hash = OwnHash(s.entry)
                          /\ s.cred = Credential(AmbientConfig, s.cred.version)
                          /\ s.handed =
                                SignHTTP(s.cred, [s.entry EXCEPT !.Body = OwnBody(s.entry)],
                                         OwnHash(s.entry), S_executeApi, S_euWest1, s.now)
                          /\ Contains(s.handed.Header[S_Authorization][1],
                                      s.entry.Path \o S_Space \o s.now \o S_Space
                                          \o OwnHash(s.entry))
                  /\ rt[c].wire # None => rt[c].wire[1].req = s.handed

\* C10: calls that interleave through one transport do not interfere: each
\* forwarded request carries the headers and the content hash of its own
\* request, no field of a transport is written after construction, and a step
\* of one call changes nothing of another.
C10_NoInterference == []OwnForwarded /\ TransportsFixed /\ CallsApart

\* two calls through the signed-request transport are complete together, each
\* signed over the hash of its own body
C10_Witness ==
    /\ rt[1].pc = "done" /\ rt[2].pc = "done"
    /\ rt[1].at = 2 /\ rt[2].at = 2
    /\ Len(rt[1].trail) = 1 /\ Len(rt[2].trail) = 1
    /\ rt[1].trail[1].hash = S_HashHi
    /\ rt[2].trail[1].hash = S_HashPing
    /\ rt[1].wire[1].req.Body = BodyOf(S_Hi, FALSE)
    /\ rt[2].wire[1].req.Body = BodyOf(S_Ping, FALSE)

\* transport t has been built with a role to assume
RoleTransport(t) == transports[t] # None /\ AssumesRole(t)

\* C11 as stated: a transport built with a role has made its one
\* role-assumption exchange at construction, and the count stays at one until
\* the cached credential expires.
C11_AsStated ==
    \A t \in TransportIds :
        (RoleTransport(t) /\ sts[t].expired = 0) => sts[t].granted = 1

\* what the cache of a transport built with a role holds
RoleCache ==
    \A t \in TransportIds :
        RoleTransport(t) =>
            /\ sts[t].granted <= sts[t].expired + 1
            /\ sts[t].cached # None => sts[t].granted >= 1
            /\ (sts[t].granted = 0 \/ sts[t].expired = sts[t].granted) => sts[t].cached = None

\* construction makes no exchange
BuiltWithoutExchange ==
    [][\A t \in TransportIds :
          (transports[t] = None /\ transports'[t] # None) => sts'[t] = NoSts]_vars

\* an exchange is made by the Retrieve of a RoundTrip that finds nothing cached
ExchangeOnRetrieve ==
    [][\A t \in TransportIds :
          sts'[t].granted # sts[t].granted =>
              /\ sts[t].cached = None
              /\ sts'[t].granted = sts[t].granted + 1
              /\ \E c \in CallIds :
                    /\ rt[c].at = t /\ rt[c].pc = "enter"
                    /\ rt'[c].pc = "hash"
                    /\ rt'[c].cred.version = sts'[t].cached[1]]_vars

\* C11 (amended): construction creates the role-assumption provider and makes
\* no exchange; the exchange is made by the credential retrieval of a
\* RoundTrip that finds no credential cached, and while a credential is
\* cached and unexpired no call makes one: at most one exchange is granted per
\* expiry.
C11_LazyExchange == []RoleCache /\ BuiltWithoutExchange /\ ExchangeOnRetrieve

\* two calls have gone through a transport that assumes a role, on one
\* exchange
C11_Witness ==
    /\ RoleTransport(1)
    /\ sts[1].granted = 1 /\ sts[1].expired = 0
    /\ rt[1].pc = "done" /\ rt[2].pc = "done"
    /\ Len(rt[1].trail) = 1 /\ Len(rt[2].trail) = 1
    /\ rt[1].trail[1].cred.akid = S_AkidRole
    /\ rt[2].trail[1].cred = rt[1].trail[1].cred

\* the call of a constructor that has just returned was given no URL
EmptyUrlCall == ctor.spec # None /\ Len(ctor.spec[1].Url) = 0

\* a step that returns from a constructor given no URL changes no transport,
\* no client and no credentials provider
EmptyUrlFrame ==
    [][(ctor' # ctor /\ ctor'.spec # None /\ Len(ctor'.spec[1].Url) = 0) =>
          /\ transports' = transports
          /\ clients' = clients
          /\ sts' = sts]_vars

\* C12: a constructor given an empty URL returns the configuration error and
\* no transport, having loaded no configuration, created no role-assumption
\* provider and left the caller's Client as it was.
C12_EmptyUrlFailsFirst ==
    /\ [](EmptyUrlCall =>
             /\ ctor.err = "missing URL config"
             /\ ctor.HTTPClient = NilClient
             /\ ctor.Endpoint = <<>>
             /\ ctor.loads = 0
             /\ ctor.providers = 0)
    /\ EmptyUrlFrame

\* a constructor was given no URL and the caller's Client, whose Transport is
\* still the caller's
C12_Witness ==
    /\ EmptyUrlCall
    /\ ctor.err = "missing URL config"
    /\ ctor.spec[1].Client = CallerClient
    /\ clients[CallerClient] = Some([Transport |-> CallerTransport])
    /\ \A t \in TransportIds : transports[t] = None

(***************************************************************************)
(* Properties of the proxy request adapter.                                *)
(***************************************************************************)
\* slot i holds a request the adapter has built
Adapted(i) == inv[i].pc = "done" /\ inv[i].input # None /\ inv[i].read # None

\* s without its trailing "=" padding
RECURSIVE Unpadded(_)
Unpadded(s) ==
    IF Len(s) > 0 /\ s[Len(s)] = 61 THEN Unpadded(Take(s, Len(s) - 1)) ELSE s

\* C13: the body of the request reads as the base64 decoding of the event's
\* body when isBase64Encoded is set ("SGVsbG8=" reads as "Hello") and as the
\* bytes of the event's body when it is not; the event's body stays as it was.
C13_BodyResolution ==
    \A i \in Slots :
        Adapted(i) =>
            LET e == Event(i)
                got == inv[i].read[1]
            IN  /\ inv[i].input[1].Body.raw = e.Body
                /\ IF e.IsBase64Encoded
                   THEN /\ e.Body = S_HelloB64 => got = [data |-> S_Hello, err |-> FALSE]
                        /\ e.Body = <<>> => got = [data |-> <<>>, err |-> FALSE]
                        /\ ~got.err => RawStdEncode(got.data) = Unpadded(e.Body)
                        /\ got.err => e.Body = S_Ping
                   ELSE got = [data |-> e.Body, err |-> FALSE]

\* "SGVsbG8=" with isBase64Encoded set has been read as "Hello", and without
\* it as it is
C13_Witness ==
    /\ Adapted(1) /\ Adapted(2)
    /\ Event(1).Body = S_HelloB64 /\ Event(1).IsBase64Encoded
    /\ inv[1].read[1].data = S_Hello
    /\ Event(2).Body = S_HelloB64 /\ ~Event(2).IsBase64Encoded
    /\ inv[2].read[1].data = S_HelloB64

\* C14 as stated: every key of the event's headers reads back from the
\* request with the event's value, the request has no other header, and the
\* headers of the request are the same whatever the order in which the
\* event's keys were visited.
C14_AsStated ==
    \A i \in Slots :
        Adapted(i) =>
            LET e == Event(i)
                h == inv[i].input[1].Header
            IN  /\ \A k \in DOMAIN e.Headers :
                      /\ HeaderValues(h, k) # <<>>
                      /\ HeaderValues(h, k)[1] = e.Headers[k]
                /\ \A ck \in DOMAIN h :
                      \E k \in DOMAIN e.Headers : CanonicalMIMEHeaderKey(k) = ck
                /\ \A j \in Slots :
                      (Adapted(j) /\ Event(j) = e) => inv[j].input[1].Header = h

\* the event of slot i takes the direct path to the handler and its method and
\* path form no request
DirectUnbuildable(i) ==
    /\ Started(i)
    /\ Event(i).HTTPMethod # S_GET
    /\ Len(Event(i).Body) = 0
    /\ ~ConstructionOk(Event(i))

\* C15: when the method and path of an event on the direct path form no
\* request, Serve has returned the error of the construction and no response;
\* no request and no recorder exist and the handler was not invoked.
C15_ConstructionErrorReturned ==
    \A i \in Slots :
        DirectUnbuildable(i) =>
            /\ inv[i].pc = "done"
            /\ inv[i].err \in {"invalid method", "invalid url"}
            /\ inv[i].resp = None
            /\ inv[i].input = None
            /\ inv[i].reply = NoRef
            /\ writers[i] = None
            /\ inv[i].served = 0
            /\ inv[i].decoded = 0
            /\ inv[i].log = <<>>
            /\ inv[i].read = None

\* Serve has returned the error for the method "B D" and for the path "/%zz"
C15_Witness ==
    \E i \in Slots :
        /\ DirectUnbuildable(i)
        /\ inv[i].pc = "done"
        /\ Event(i).HTTPMethod = S_POST
        /\ Event(i).Path = S_PathBadEscape
        /\ inv[i].err = "invalid url"

\* C16 as stated: whatever the httpMethod of the event, the handler is never
\* invoked with a request whose method is GET.
C16_AsStated ==
    \A i \in Slots :
        inv[i].served >= 1 => inv[i].input[1].Method # S_GET

\* C17 as stated: the bytes given to the envelope decoder are the bytes the
\* handler reads: when the body the handler sees is a well-formed message the
\* decode succeeds and the handler is invoked, and when the decode succeeds
\* the handler reads that message.
C17_AsStated ==
    \A i \in Slots :
        (/\ Started(i)
         /\ Event(i).HTTPMethod # S_GET
         /\ Len(Event(i).Body) > 0
         /\ ConstructionOk(Event(i))) =>
            LET visible == ReadAll(requestBody(Event(i)))
            IN  /\ (~visible.err /\ DecodeMessage(visible.data).err = Nil) =>
                      inv[i].err = Nil /\ inv[i].served = 1
                /\ (inv[i].msg # None /\ inv[i].read # None) =>
                      /\ ~inv[i].read[1].err
                      /\ DecodeMessage(inv[i].read[1].data).msg = inv[i].msg

\* C18 as stated: the request a shared-secret transport hands on has exactly
\* one Authorization value, Basic <digest>, also when the request came with an
\* Authorization header or has been through RoundTrip before.
C18_AsStated ==
    \A c \in CallIds :
        \A i \in DOMAIN rt[c].trail :
            LET s == rt[c].trail[i]
            IN  s.kind = "apikey" =>
                   s.handed.Header[S_Authorization] =
                       <<S_Basic \o transports[s.t][1].digest>>

\* C19 as stated: construction leaves the caller's Client as it was, every
\* transport forwards to the caller's inner transport or to the default one,
\* and a call passes through one authentication layer.
C19_AsStated ==
    /\ clients[CallerClient][1].Transport \in {NilTransport, CallerTransport}
    /\ \A t \in TransportIds :
          transports[t] # None =>
              transports[t][1].socket \in {DefaultTransport, CallerTransport}
    /\ \A c \in CallIds :
          rt[c].sent = 1 =>
              /\ Len(rt[c].trail) = 1
              /\ rt[c].wire[1].to \in {DefaultTransport, CallerTransport}

\* C20 as stated: the response Value returned keeps the status, the headers
\* and the body the recorder had when Value was called, whatever is written to
\* the recorder afterwards, and a second Value with nothing written in between
\* returns an equal response.
C20_AsStated ==
    \A i \in Slots :
        (inv[i].pc = "ServeHTTP" /\ inv[i].taken # None) =>
            LET before == SubSeq(inv[i].log, 1, inv[i].taken[1])
                resp == inv[i].resp[1]
            IN  /\ resp.StatusCode = LogStatus(before)
                /\ resp.Body = LogBody(before)
                /\ heads[resp.MultiValueHeaders] = LogHeaders(NoHeader, before)
                /\ inv[i].again # None => inv[i].again[1] = resp

====
